---- MODULE Spec2Model ----
(***************************************************************************)
(* Model of setup.py of pyvinecopulib: the compiler-flag probe (has_flag), *)
(* the language-standard selection (cpp_flag), the per-toolchain flag      *)
(* tables of BuildExt and BuildExt.build_extensions, extract_boost, and    *)
(* the module-level script that calls extract_boost() and then setup().    *)
(*                                                                         *)
(* Python lists are sequences.  A list that several names refer to (the    *)
(* class-level tables c_opts / l_opts and the extension's argument lists   *)
(* after `ext.extra_compile_args = opts`) is modelled by a reference to    *)
(* the table entry, so that in-place appends are seen through every alias. *)
(* Exceptions are the name of the exception raised, "" when none.          *)
(***************************************************************************)
EXTENDS Naturals, Sequences, FiniteSets, TLC

\* ---------------------------------------------------------------- bounds
\* calls of BuildExt.build_extensions in one process
MaxBuilds == 2
\* runs of the setup.py script over the same file system
MaxRuns == 2

\* ---------------------------------------------------------- input domains
\* sys.platform
Platforms == {"darwin", "linux", "win32"}

\* sys.version_info, as <<major, minor>>
VersionInfos == {<<2, 7>>, <<3, 8>>, <<3, 9>>, <<3, 10>>}

\* self.distribution.get_version()
VersionStrings == {"0.6.1", "0.6.2.dev4"}

\* compiler.compiler_type; "mingw32" stands for a type in neither table
CompilerTypes == {"unix", "msvc", "mingw32"}

\* what compiler.compile does on the probe file: it returns ("ok"), raises
\* CompileError, or raises an error that is not a CompileError
CompileOutcomes == {"ok", "CompileError", "DistutilsPlatformError"}

\* the flags has_flag is called with
ProbedFlags == {"-std=c++14", "-std=c++11", "-fvisibility=hidden"}

\* compiler.compiler_so: has = FALSE when the compiler object has no such
\* attribute, else list is its value
CompilerSoValues ==
  { [ has |-> FALSE, list |-> <<>> ],
    [ has |-> TRUE, list |-> <<"cc", "-O2">> ],
    [ has |-> TRUE, list |-> <<"cc", "-Wstrict-prototypes", "-O2">> ],
    [ has |-> TRUE,
      list |-> <<"cc", "-Wstrict-prototypes", "-O2", "-Wstrict-prototypes">> ] }

\* glob(os.path.join('lib', 'boost*.tar.gz'))
GlobResults ==
  { <<>>,
    <<"lib/boost_1_71_0.tar.gz">>,
    <<"lib/boost_1_66_0.tar.gz", "lib/boost_1_71_0.tar.gz">> }

\* state of the directory lib/boost
DirStates == {"absent", "partial", "full"}

\* what opening and extracting the archive can do: all of it succeeds, the
\* open raises, extractall raises before it wrote anything, extractall raises
\* after it created part of the tree
TarOutcomes == {"ok", "open_fails", "extract_fails_early", "extract_fails_partway"}

\* -------------------------------------------------------------- helpers
RECURSIVE Count(_, _)
Count(s, x) ==
  IF s = <<>> THEN 0
  ELSE (IF Head(s) = x THEN 1 ELSE 0) + Count(Tail(s), x)

Range(s) == { s[i] : i \in 1..Len(s) }

\* tuple comparison a >= b of two <<major, minor>> pairs
TupleGE(a, b) == a[1] > b[1] \/ (a[1] = b[1] /\ a[2] >= b[2])

\* ---------------------------------------------------------------- state
VARIABLES
  platform,        \* sys.platform
  version_info,    \* sys.version_info
  version,         \* distribution.get_version()
  compiler,        \* [compiler_type, compile: flag -> outcome, compiler_so]
  compiler_so,     \* compiler.compiler_so
  glob_result,     \* files matching lib/boost*.tar.gz, in listing order
  dir,             \* lib/boost
  pc,              \* position of the script
  error,           \* exception that ended the script, "" when none
  c_opts,          \* BuildExt.c_opts
  l_opts,          \* BuildExt.l_opts
  ext,             \* which list ext.extra_compile_args / extra_link_args is
  probes,          \* has_flag calls made by this process
  cpp_call,        \* the last cpp_flag call of this process
  driver_calls,    \* calls of build_ext.build_extensions of this process
  builds,          \* calls of BuildExt.build_extensions of this process
  deps_enumerated, \* get_files() has run in this process
  tar,             \* what the extract_boost call of this process did
  extractions,     \* extract_boost calls so far that wrote to the file system
  runs             \* runs of the script so far

vars == << platform, version_info, version, compiler, compiler_so,
           glob_result, dir, pc, error, c_opts, l_opts, ext, probes,
           cpp_call, driver_calls, builds, deps_enumerated, tar,
           extractions, runs >>

env == << platform, version_info, version, compiler, glob_result >>

\* ------------------------------------------------------------- has_flag
\* variant: a bare except, every error of the probe gives False
has_flag_bare_except(comp, flagname) ==
  IF comp.compile[flagname] = "ok" THEN "True" ELSE "False"

has_flag(comp, flagname) ==
  LET r == comp.compile[flagname] IN
    IF r = "CompileError" THEN "False"
    ELSE IF r = "ok" THEN "True"
    ELSE r

\* the record of one has_flag call
ProbeRecord(comp, flagname) ==
  [ flag |-> flagname, outcome |-> comp.compile[flagname],
    result |-> has_flag(comp, flagname) ]

\* ------------------------------------------------------------- cpp_flag
flags == <<"-std=c++14", "-std=c++11">>

\* variant: the loop does not return at the first accepted flag, the last
\* accepted one wins
RECURSIVE cpp_flag_loop_last_wins(_, _, _)
cpp_flag_loop_last_wins(comp, i, probed) ==
  IF i > Len(flags)
  THEN [ raised |-> "RuntimeError", flag |-> "", probed |-> probed ]
  ELSE LET r == has_flag(comp, flags[i])
           p == Append(probed, flags[i])
           rest == cpp_flag_loop_last_wins(comp, i + 1, p) IN
         IF r = "True"
         THEN IF rest.raised = "RuntimeError"
              THEN [ raised |-> "", flag |-> flags[i], probed |-> rest.probed ]
              ELSE rest
         ELSE IF r = "False" THEN rest
         ELSE [ raised |-> r, flag |-> "", probed |-> p ]

\* variant: falls back to the oldest standard instead of raising
RECURSIVE cpp_flag_loop_fallback(_, _, _)
cpp_flag_loop_fallback(comp, i, probed) ==
  IF i > Len(flags)
  THEN [ raised |-> "", flag |-> flags[Len(flags)], probed |-> probed ]
  ELSE LET r == has_flag(comp, flags[i])
           p == Append(probed, flags[i]) IN
         IF r = "True" THEN [ raised |-> "", flag |-> flags[i], probed |-> p ]
         ELSE IF r = "False" THEN cpp_flag_loop_fallback(comp, i + 1, p)
         ELSE [ raised |-> r, flag |-> "", probed |-> p ]

RECURSIVE cpp_flag_loop(_, _, _)
cpp_flag_loop(comp, i, probed) ==
  IF i > Len(flags)
  THEN [ raised |-> "RuntimeError", flag |-> "", probed |-> probed ]
  ELSE LET r == has_flag(comp, flags[i])
           p == Append(probed, flags[i]) IN
         IF r = "True" THEN [ raised |-> "", flag |-> flags[i], probed |-> p ]
         ELSE IF r = "False" THEN cpp_flag_loop(comp, i + 1, p)
         ELSE [ raised |-> r, flag |-> "", probed |-> p ]

cpp_flag(comp) == cpp_flag_loop(comp, 1, <<>>)

NoCppCall == [ raised |-> "", flag |-> "", probed |-> <<>> ]

\* ---------------------------------------------- BuildExt, the class body
darwin_opts == <<"-stdlib=libc++", "-mmacosx-version-min=10.7">>

\* variant: both tables share one 'unix' list, extended twice
class_c_opts_shared_list(plat) ==
  [ msvc |-> <<"/EHsc">>,
    unix |-> IF plat = "darwin" THEN darwin_opts \o darwin_opts ELSE <<>> ]

class_c_opts(plat) ==
  [ msvc |-> <<"/EHsc">>,
    unix |-> IF plat = "darwin" THEN <<>> \o darwin_opts ELSE <<>> ]

class_l_opts(plat) ==
  [ msvc |-> <<>>,
    unix |-> IF plat = "darwin" THEN <<>> \o darwin_opts ELSE <<>> ]

\* ------------------------------------------- BuildExt.build_extensions
\* the version macro appended for compiler type ct ("unix" or "msvc")
\* variant: the threshold compared with > instead of >=
version_macro_strict(ct, vi, ver) ==
  IF ct = "unix" THEN "-DVERSION_INFO=\"" \o ver \o "\""
  ELSE IF TupleGE(vi, <<3, 9>>) /\ vi # <<3, 9>>
  THEN "-DVERSION_INFO=\"" \o ver \o "\""
  ELSE "/DVERSION_INFO=\\\"" \o ver \o "\\\""

version_macro(ct, vi, ver) ==
  IF ct = "unix" THEN "-DVERSION_INFO=\"" \o ver \o "\""
  ELSE IF TupleGE(vi, <<3, 9>>) THEN "-DVERSION_INFO=\"" \o ver \o "\""
  ELSE "/DVERSION_INFO=\\\"" \o ver \o "\\\""

\* lines 63-75: what the branch on the compiler type does to the list opts;
\* raised is the exception that leaves build_extensions, probed the flags
\* has_flag was called with, cpp the cpp_flag call
build_opts(ct, opts, comp, vi, ver) ==
  IF ct = "unix" THEN
    LET o1 == Append(opts, version_macro(ct, vi, ver))
        cf == cpp_flag(comp)
        o2 == Append(o1, cf.flag)
        vis == has_flag(comp, "-fvisibility=hidden")
        pv == Append(cf.probed, "-fvisibility=hidden") IN
      IF cf.raised # ""
      THEN [ opts |-> o1, raised |-> cf.raised, probed |-> cf.probed, cpp |-> cf ]
      ELSE IF vis = "True"
      THEN [ opts |-> Append(o2, "-fvisibility=hidden"), raised |-> "",
             probed |-> pv, cpp |-> cf ]
      ELSE IF vis = "False"
      THEN [ opts |-> o2, raised |-> "", probed |-> pv, cpp |-> cf ]
      ELSE [ opts |-> o2, raised |-> vis, probed |-> pv, cpp |-> cf ]
  ELSE IF ct = "msvc" THEN
    [ opts |-> Append(opts, version_macro(ct, vi, ver)), raised |-> "",
      probed |-> <<>>, cpp |-> [ raised |-> "", flag |-> "", probed |-> <<>> ] ]
  ELSE
    [ opts |-> opts, raised |-> "", probed |-> <<>>,
      cpp |-> [ raised |-> "", flag |-> "", probed |-> <<>> ] ]

\* list.remove(x): drops the first x, raises ValueError when there is none
RECURSIVE remove_first(_, _)
remove_first(s, x) ==
  IF s = <<>> THEN <<>>
  ELSE IF Head(s) = x THEN Tail(s)
  ELSE <<Head(s)>> \o remove_first(Tail(s), x)

\* the exceptions the try block of lines 76-79 swallows
\* variant: only ValueError is caught
legacy_caught_value_only == {"ValueError"}

legacy_caught == {"AttributeError", "ValueError"}

\* lines 76-79: self.compiler.compiler_so.remove('-Wstrict-prototypes')
remove_legacy(so) ==
  LET exc == IF ~so.has THEN "AttributeError"
             ELSE IF "-Wstrict-prototypes" \notin Range(so.list) THEN "ValueError"
             ELSE "" IN
    IF exc = ""
    THEN [ so |-> [ so EXCEPT !.list = remove_first(so.list, "-Wstrict-prototypes") ],
           raised |-> "" ]
    ELSE [ so |-> so, raised |-> IF exc \in legacy_caught THEN "" ELSE exc ]

\* the lists the extension's arguments are: its own empty lists until
\* build_extensions assigns them ("own"), a table entry ("unix", "msvc"), or
\* the fresh empty list that dict.get returns for any other type ("fresh")
ext_compile_args ==
  IF ext.compile \in {"unix", "msvc"} THEN c_opts[ext.compile] ELSE <<>>

ext_link_args ==
  IF ext.link \in {"unix", "msvc"} THEN l_opts[ext.link] ELSE <<>>

\* -------------------------------------------------------- extract_boost
\* lines 87-94, on directory state d and glob result g, when opening and
\* extracting the archive does what outcome says; opened is the file given to
\* tarfile.open, handle_open whether the handle is still open at the exit
\* variant: without the os.path.isdir test
extract_boost_unguarded(d, g, outcome) ==
  IF g = <<>>
  THEN [ dir |-> d, raised |-> "IndexError", opened |-> "",
         handle_open |-> FALSE, wrote |-> FALSE ]
  ELSE IF outcome = "open_fails"
  THEN [ dir |-> d, raised |-> "ReadError", opened |-> g[1],
         handle_open |-> FALSE, wrote |-> FALSE ]
  ELSE IF outcome = "extract_fails_early"
  THEN [ dir |-> d, raised |-> "OSError", opened |-> g[1],
         handle_open |-> TRUE, wrote |-> FALSE ]
  ELSE IF outcome = "extract_fails_partway"
  THEN [ dir |-> "partial", raised |-> "OSError", opened |-> g[1],
         handle_open |-> TRUE, wrote |-> TRUE ]
  ELSE [ dir |-> "full", raised |-> "", opened |-> g[1],
         handle_open |-> FALSE, wrote |-> TRUE ]

\* variant: an empty glob result is skipped instead of indexed
extract_boost_skip_missing(d, g, outcome) ==
  IF d # "absent" \/ g = <<>>
  THEN [ dir |-> d, raised |-> "", opened |-> "", handle_open |-> FALSE,
         wrote |-> FALSE ]
  ELSE IF outcome = "open_fails"
  THEN [ dir |-> d, raised |-> "ReadError", opened |-> g[1],
         handle_open |-> FALSE, wrote |-> FALSE ]
  ELSE IF outcome = "extract_fails_early"
  THEN [ dir |-> d, raised |-> "OSError", opened |-> g[1],
         handle_open |-> TRUE, wrote |-> FALSE ]
  ELSE IF outcome = "extract_fails_partway"
  THEN [ dir |-> "partial", raised |-> "OSError", opened |-> g[1],
         handle_open |-> TRUE, wrote |-> TRUE ]
  ELSE [ dir |-> "full", raised |-> "", opened |-> g[1],
         handle_open |-> FALSE, wrote |-> TRUE ]

extract_boost(d, g, outcome) ==
  IF d # "absent"
  THEN [ dir |-> d, raised |-> "", opened |-> "", handle_open |-> FALSE,
         wrote |-> FALSE ]
  ELSE IF g = <<>>
  THEN [ dir |-> d, raised |-> "IndexError", opened |-> "",
         handle_open |-> FALSE, wrote |-> FALSE ]
  ELSE IF outcome = "open_fails"
  THEN [ dir |-> d, raised |-> "ReadError", opened |-> g[1],
         handle_open |-> FALSE, wrote |-> FALSE ]
  ELSE IF outcome = "extract_fails_early"
  THEN [ dir |-> d, raised |-> "OSError", opened |-> g[1],
         handle_open |-> TRUE, wrote |-> FALSE ]
  ELSE IF outcome = "extract_fails_partway"
  THEN [ dir |-> "partial", raised |-> "OSError", opened |-> g[1],
         handle_open |-> TRUE, wrote |-> TRUE ]
  ELSE [ dir |-> "full", raised |-> "", opened |-> g[1],
         handle_open |-> FALSE, wrote |-> TRUE ]

NoTarCall == [ called |-> FALSE, dir_before |-> "absent", raised |-> "",
               opened |-> "", handle_open |-> FALSE, wrote |-> FALSE ]

\* ----------------------------------------------------------------- Init
Compilers ==
  [ compiler_type : CompilerTypes,
    compile : [ProbedFlags -> CompileOutcomes],
    compiler_so : CompilerSoValues ]

Init ==
  /\ platform \in Platforms
  /\ version_info \in VersionInfos
  /\ version \in VersionStrings
  /\ compiler \in Compilers
  /\ compiler_so = compiler.compiler_so
  /\ glob_result \in GlobResults
  /\ dir \in DirStates
  /\ pc = "start"
  /\ error = ""
  /\ c_opts = class_c_opts(platform)
  /\ l_opts = class_l_opts(platform)
  /\ ext = [ compile |-> "own", link |-> "own" ]
  /\ probes = {}
  /\ cpp_call = NoCppCall
  /\ driver_calls = 0
  /\ builds = 0
  /\ deps_enumerated = FALSE
  /\ tar = NoTarCall
  /\ extractions = 0
  /\ runs = 1

\* -------------------------------------------------------------- actions
\* line 152: extract_boost()
ExtractBoost ==
  /\ pc = "start"
  /\ \E outcome \in TarOutcomes :
       LET r == extract_boost(dir, glob_result, outcome) IN
         /\ dir' = r.dir
         /\ tar' = [ called |-> TRUE, dir_before |-> dir, raised |-> r.raised,
                     opened |-> r.opened, handle_open |-> r.handle_open,
                     wrote |-> r.wrote ]
         /\ extractions' = extractions + (IF r.wrote THEN 1 ELSE 0)
         /\ error' = r.raised
         /\ pc' = IF r.raised = "" THEN "extracted" ELSE "aborted"
  /\ UNCHANGED << env, compiler_so, c_opts, l_opts, ext, probes, cpp_call,
                  driver_calls, builds, deps_enumerated, runs >>

\* lines 153-177: the arguments of setup() are evaluated, get_files among them
SetupArgs ==
  /\ pc = "extracted"
  /\ deps_enumerated' = TRUE
  /\ pc' = "setup"
  /\ UNCHANGED << env, compiler_so, dir, error, c_opts, l_opts, ext, probes,
                  cpp_call, driver_calls, builds, tar, extractions, runs >>

\* lines 58-84: BuildExt.build_extensions, run by setup()
BuildExtensions ==
  /\ pc = "setup"
  /\ builds < MaxBuilds
  /\ LET ct == compiler.compiler_type
         known == ct \in {"msvc", "unix"}
         opts == IF known THEN c_opts[ct] ELSE <<>>
         b == build_opts(ct, opts, compiler, version_info, version)
         rm == remove_legacy(compiler_so)
         raised == IF b.raised # "" THEN b.raised ELSE rm.raised IN
       /\ builds' = builds + 1
       /\ c_opts' = IF known THEN [ c_opts EXCEPT ![ct] = b.opts ] ELSE c_opts
       /\ probes' = probes \cup { ProbeRecord(compiler, f) : f \in Range(b.probed) }
       /\ cpp_call' = IF ct = "unix" THEN b.cpp ELSE cpp_call
       /\ compiler_so' = IF b.raised = "" THEN rm.so ELSE compiler_so
       /\ error' = raised
       /\ IF raised = ""
          THEN /\ ext' = IF known THEN [ compile |-> ct, link |-> ct ]
                         ELSE [ compile |-> "fresh", link |-> "fresh" ]
               /\ driver_calls' = driver_calls + 1
               /\ pc' = "setup"
          ELSE /\ UNCHANGED << ext, driver_calls >>
               /\ pc' = "aborted"
  /\ UNCHANGED << env, dir, l_opts, deps_enumerated, tar, extractions, runs >>

\* the script is run again: a new process over the same file system and the
\* same toolchain; every handle of the old process is closed by its exit
Restart ==
  /\ pc \in {"setup", "aborted"}
  /\ runs < MaxRuns
  /\ runs' = runs + 1
  /\ pc' = "start"
  /\ error' = ""
  /\ compiler_so' = compiler.compiler_so
  /\ c_opts' = class_c_opts(platform)
  /\ l_opts' = class_l_opts(platform)
  /\ ext' = [ compile |-> "own", link |-> "own" ]
  /\ probes' = {}
  /\ cpp_call' = NoCppCall
  /\ driver_calls' = 0
  /\ builds' = 0
  /\ deps_enumerated' = FALSE
  /\ tar' = NoTarCall
  /\ UNCHANGED << env, dir, extractions >>

Next == ExtractBoost \/ SetupArgs \/ BuildExtensions \/ Restart

Spec == Init /\ [][Next]_vars

\* --------------------------------------------------------------- claims
Std14 == "-std=c++14"
Std11 == "-std=c++11"
Legacy == "-Wstrict-prototypes"

\* C1: cpp_flag returns the first flag of ['-std=c++14', '-std=c++11'] that
\* has_flag accepts and probes nothing after it: when '-std=c++14' is
\* accepted it is returned and '-std=c++11' is not probed; when '-std=c++14'
\* is rejected and '-std=c++11' accepted, '-std=c++11' is returned; and a
\* returned flag is always one that was accepted, probed last, after every
\* candidate before it was rejected.
Thm_C1_FirstAccepted ==
  cpp_call.probed # <<>> =>
    /\ has_flag(compiler, Std14) = "True" =>
         /\ cpp_call.raised = ""
         /\ cpp_call.flag = Std14
         /\ cpp_call.probed = <<Std14>>
    /\ (has_flag(compiler, Std14) = "False" /\ has_flag(compiler, Std11) = "True") =>
         /\ cpp_call.raised = ""
         /\ cpp_call.flag = Std11
         /\ cpp_call.probed = <<Std14, Std11>>
    /\ cpp_call.raised = "" =>
         /\ cpp_call.flag \in {Std14, Std11}
         /\ has_flag(compiler, cpp_call.flag) = "True"
         /\ cpp_call.probed[Len(cpp_call.probed)] = cpp_call.flag
         /\ \A j \in 1..(Len(cpp_call.probed) - 1) :
              has_flag(compiler, cpp_call.probed[j]) = "False"

Wit_C1_SecondCandidate ==
  /\ cpp_call.flag = Std11
  /\ cpp_call.probed = <<Std14, Std11>>
  /\ driver_calls >= 1

\* C2: with a unix compiler on which has_flag is false for every candidate
\* standard flag, cpp_flag raises and returns no flag, and build_extensions
\* aborts: the extension keeps its own empty argument lists and the base
\* build_ext.build_extensions is never called.
Thm_C2_UnsupportedAborts ==
  ( /\ compiler.compiler_type = "unix"
    /\ has_flag(compiler, Std14) = "False"
    /\ has_flag(compiler, Std11) = "False"
    /\ builds >= 1 ) =>
    /\ cpp_call.raised = "RuntimeError"
    /\ cpp_call.flag = ""
    /\ pc = "aborted"
    /\ error = "RuntimeError"
    /\ ext = [ compile |-> "own", link |-> "own" ]
    /\ ext_compile_args = <<>>
    /\ ext_link_args = <<>>
    /\ driver_calls = 0

Wit_C2_Unsupported ==
  /\ compiler.compiler_type = "unix"
  /\ cpp_call.probed = <<Std14, Std11>>
  /\ error = "RuntimeError"
  /\ pc = "aborted"

\* C3: an extract_boost call made while lib/boost exists opens no archive,
\* writes nothing and returns normally, leaving the tree as it was; over any
\* sequence of calls at most one call writes to the file system.
Thm_C3_ExtractOnce ==
  /\ (tar.called /\ tar.dir_before # "absent") =>
       /\ tar.opened = ""
       /\ ~tar.wrote
       /\ ~tar.handle_open
       /\ tar.raised = ""
       /\ dir = tar.dir_before
  /\ extractions <= 1

Wit_C3_SecondCallNoOp ==
  /\ runs = 2
  /\ tar.called
  /\ tar.dir_before = "full"
  /\ extractions = 1

\* C4: a second build_extensions in the same process leaves the extension's
\* compile and link argument lists exactly as the first left them.
Cex_C4_BuildIdempotent ==
  [][ (driver_calls >= 1 /\ driver_calls' = driver_calls + 1) =>
        /\ ext_compile_args' = ext_compile_args
        /\ ext_link_args' = ext_link_args ]_vars

\* C5: on darwin each of '-stdlib=libc++' and '-mmacosx-version-min=10.7'
\* occurs exactly once in the unix compile table and once in the unix link
\* table, however many build_extensions calls were made, and so exactly once
\* in the compile and link argument lists attached to the extension.
Thm_C5_DarwinOnce ==
  platform = "darwin" =>
    \A f \in {"-stdlib=libc++", "-mmacosx-version-min=10.7"} :
      /\ Count(c_opts.unix, f) = 1
      /\ Count(l_opts.unix, f) = 1
      /\ ext.compile = "unix" =>
           (Count(ext_compile_args, f) = 1 /\ Count(ext_link_args, f) = 1)

Wit_C5_DarwinTwoBuilds ==
  /\ platform = "darwin"
  /\ ext.compile = "unix"
  /\ driver_calls = 2

\* C6 as stated: has_flag is true iff the compile succeeds and every failure
\* of the compile, whatever the error, gives false.
Cex_C6_EveryErrorFalse ==
  \A p \in probes :
    /\ p.result = "True" <=> p.outcome = "ok"
    /\ p.outcome # "ok" => p.result = "False"

\* C6 amended: has_flag is true iff the compile succeeds and false iff the
\* compile raises CompileError; any other error leaves has_flag as that
\* error and ends the build with it.
Thm_C6_OnlyCompileErrorFalse ==
  \A p \in probes :
    /\ p.result = "True" <=> p.outcome = "ok"
    /\ p.result = "False" <=> p.outcome = "CompileError"
    /\ p.outcome \notin {"ok", "CompileError"} =>
         (p.result = p.outcome /\ error = p.outcome /\ pc = "aborted")

Wit_C6_ErrorPropagates ==
  \E p, q \in probes :
    /\ p.outcome = "CompileError" /\ p.result = "False"
    /\ q.outcome = "DistutilsPlatformError"
    /\ error = "DistutilsPlatformError"

\* C7: the version macro build_extensions appends is, for msvc below Python
\* 3.9, /DVERSION_INFO=\"<version>\" with a backslash before each quote; for
\* msvc from 3.9 on and for unix at any version, -DVERSION_INFO="<version>".
EscapedMacro == "/DVERSION_INFO=\\\"" \o version \o "\\\""
PlainMacro == "-DVERSION_INFO=\"" \o version \o "\""
BelowThreshold ==
  version_info[1] < 3 \/ (version_info[1] = 3 /\ version_info[2] < 9)

Thm_C7_VersionMacro ==
  LET ct == compiler.compiler_type IN
    /\ (ct = "msvc" /\ BelowThreshold) =>
         (Count(c_opts.msvc, EscapedMacro) = builds /\ Count(c_opts.msvc, PlainMacro) = 0)
    /\ (ct = "msvc" /\ ~BelowThreshold) =>
         (Count(c_opts.msvc, PlainMacro) = builds /\ Count(c_opts.msvc, EscapedMacro) = 0)
    /\ ct = "unix" =>
         (Count(c_opts.unix, PlainMacro) = builds /\ Count(c_opts.unix, EscapedMacro) = 0)

Wit_C7_MsvcEscaped ==
  /\ compiler.compiler_type = "msvc"
  /\ version_info = <<3, 8>>
  /\ driver_calls >= 1
  /\ ext_compile_args = <<"/EHsc", EscapedMacro>>

\* C8: when '-Wstrict-prototypes' is not in compiler_so, or the compiler has
\* no compiler_so, the removal step of build_extensions raises nothing and
\* leaves compiler_so as it was, and a build that got as far as that step
\* goes on to attach the arguments and call the base build_extensions.
Thm_C8_LegacyAbsentNoOp ==
  [][ ( /\ builds' = builds + 1
        /\ (~compiler_so.has \/ Legacy \notin Range(compiler_so.list)) ) =>
        /\ compiler_so' = compiler_so
        /\ error' \notin {"AttributeError", "ValueError"}
        /\ build_opts(compiler.compiler_type, <<>>, compiler, version_info,
                      version).raised = "" =>
             /\ error' = ""
             /\ ext'.compile # "own"
             /\ driver_calls' = driver_calls + 1 ]_vars

Wit_C8_NoCompilerSo ==
  /\ ~compiler.compiler_so.has
  /\ ~compiler_so.has
  /\ driver_calls >= 1
  /\ ext.compile # "own"

\* C9: with lib/boost absent and no file matching lib/boost*.tar.gz,
\* extract_boost raises without creating lib/boost, and the script ends
\* there: no dependency files were enumerated, no flag was probed, no
\* build_extensions call was made and the compiler driver was not called.
Thm_C9_ArchiveMissingAborts ==
  (tar.called /\ tar.dir_before = "absent" /\ glob_result = <<>>) =>
    /\ tar.raised = "IndexError"
    /\ error = "IndexError"
    /\ pc = "aborted"
    /\ dir = "absent"
    /\ ~tar.wrote
    /\ ~deps_enumerated
    /\ probes = {}
    /\ cpp_call.probed = <<>>
    /\ builds = 0
    /\ driver_calls = 0
    /\ ext_compile_args = <<>>

Wit_C9_ArchiveMissing ==
  /\ tar.called
  /\ glob_result = <<>>
  /\ error = "IndexError"
  /\ dir = "absent"

\* C10: whenever extract_boost has exited, the archive handle it opened is
\* closed.
Cex_C10_HandleReleased ==
  tar.called => ~tar.handle_open

====
